---- MODULE Spec2Model ----
(***************************************************************************)
(* Gate operation-mode scheduling of the smart-village backend:            *)
(* routes/gate_schedule.py (schedule CRUD, override upsert/clear, the      *)
(* effective-mode query) and routes/hardware_simulation.py (gate control   *)
(* and gate status, which carry their own copies of the mode lookup).      *)
(*                                                                         *)
(* Time is an absolute tick count: datetime.now() is `now`, its weekday is *)
(* Weekday(now) and its time of day is TimeOfDay(now).  A handler runs at  *)
(* one instant; Tick moves the clock between requests.  A request is       *)
(* handled once the previous response has been sent (Respond): `resp` is   *)
(* the response the running handler has just produced.                     *)
(***************************************************************************)
EXTENDS Integers, FiniteSets, Sequences, TLC

\* ---------------------------------------------------------------- bounds
\* ticks in one day: a time-of-day value is in 0..TicksPerDay-1
TicksPerDay == 3
\* the clock stops advancing at MaxNow
MaxNow == 3
\* the three tables hold at most MaxRows rows together
MaxRows == 2

\* ---------------------------------------------------------------- domains
DaysPerWeek == 7

Villages == {1}

Gates == {"main_gate"}

Modes == {"staff_assisted", "automated"}

\* current_user of a request: id, role and village of the authenticated user
Users ==
  { [id |-> 1, role |-> "admin",    village_id |-> 1],
    [id |-> 2, role |-> "staff",    village_id |-> 1],
    [id |-> 3, role |-> "resident", village_id |-> 1] }

Times == 0 .. (TicksPerDay - 1)

\* the days_of_week values requests carry (0 = Monday .. 6 = Sunday)
DaySets == { {0}, {1} }

\* the longest override: 1440 minutes are one day
MaxDuration == TicksPerDay

\* datetime.weekday() and datetime.time() of an instant
Weekday(t) == (t \div TicksPerDay) % DaysPerWeek

TimeOfDay(t) == t % TicksPerDay

VARIABLES
  now,          \* datetime.now()
  schedules,    \* rows of table gate_schedules
  overrides,    \* rows of table gate_overrides
  access_logs,  \* rows of table access_logs written by control_gate
  lastOverride, \* per (village, gate): the answer to the last accepted override request
  txn,          \* per database session: the request whose handler has queried and not yet committed
  resp,         \* the response of the last request
  qr_code_records,    \* rows of table qr_code_records
  qr_code_usage_logs  \* rows of table qr_code_usage_logs

vars == <<now, schedules, overrides, access_logs, lastOverride, txn, resp,
          qr_code_records, qr_code_usage_logs>>

\* rows stored in the three tables
TotalRows == Cardinality(schedules) + Cardinality(overrides) + Len(access_logs)

\* default=uuid.uuid4 of the id columns: an id no stored row of the table has
\* (rows are told apart by their ids and by nothing else)
FreshId(rows) == CHOOSE i \in 1 .. (Cardinality(rows) + 1) : \A r \in rows : r.id # i

\* ---------------------------------------------------------------- responses
NoResp ==
  [op |-> "none", status |-> 0, village |-> 0, gate |-> "", at |-> 0,
   mode |-> "", source |-> "", expiry |-> -1, sid |-> 0, by |-> 0,
   has_next_change |-> FALSE, next_change_type |-> "", next_mode |-> "",
   change_time |-> -1, days_until |-> -1, success |-> FALSE, error_code |-> ""]

Reply(op, st, u, g) ==
  [NoResp EXCEPT !.op = op, !.status = st, !.village = u.village_id, !.gate = g, !.at = now]

\* how: whether the request inserted the row ("insert") or wrote over a row that
\* was still active ("replace_active") or had expired ("replace_expired")
NoOverride == [operation_mode |-> "", expiry_time |-> -1, created_by |-> 0, how |-> ""]

\* database sessions of requests that run at the same time
Sessions == {1, 2}

NoUser == [id |-> 0, role |-> "", village_id |-> 0]

NoData ==
  [village_id |-> 0, gate_id |-> "", operation_mode |-> "", days_of_week |-> {},
   start_time |-> -1, end_time |-> -1]

\* a session with no request in it
Idle ==
  [kind |-> "idle", u |-> NoUser, gate |-> "", mode |-> "", expiry |-> -1,
   found |-> 0, data |-> NoData]

Init ==
  /\ now = 0
  /\ schedules = {}
  /\ overrides = {}
  /\ access_logs = << >>
  /\ lastOverride = [v \in Villages |-> [g \in Gates |-> NoOverride]]
  /\ txn = [p \in Sessions |-> Idle]
  /\ resp = NoResp
  /\ qr_code_records = {}
  /\ qr_code_usage_logs = << >>

\* ---------------------------------------------------------------- schedule CRUD
\* (mutant) the overlap filter that only asks whether the new window starts
\* inside a stored one
CreateOverlapping_StartInsideOnly(rows, v, data) ==
  { s \in rows :
      /\ s.village_id = v
      /\ s.gate_id = data.gate_id
      /\ s.days_of_week \cap data.days_of_week # {}
      /\ s.start_time <= data.start_time
      /\ s.end_time > data.start_time }

\* (mutant) the overlap filter with closed windows: windows that touch overlap
CreateOverlapping_Touching(rows, v, data) ==
  { s \in rows :
      /\ s.village_id = v
      /\ s.gate_id = data.gate_id
      /\ s.days_of_week \cap data.days_of_week # {}
      /\ s.start_time <= data.end_time
      /\ s.end_time >= data.start_time }

\* the overlap filter of create_gate_schedule
CreateOverlapping(rows, v, data) ==
  { s \in rows :
      /\ s.village_id = v
      /\ s.gate_id = data.gate_id
      /\ s.days_of_week \cap data.days_of_week # {}
      /\ s.start_time < data.end_time
      /\ s.end_time > data.start_time }

ScheduleInputs ==
  [village_id : Villages, gate_id : Gates, operation_mode : Modes,
   days_of_week : DaySets, start_time : Times, end_time : Times]

\* the checks of create_gate_schedule before the insert: the status of the
\* refusal, or 0 when the request passes
CreateRefusal(u, data) ==
  IF u.role # "admin" THEN 403
  ELSE IF data.village_id # u.village_id THEN 400
  ELSE IF data.start_time >= data.end_time THEN 400
  ELSE IF CreateOverlapping(schedules, u.village_id, data) # {} THEN 400
  ELSE 0

\* db.add(db_schedule); db.commit(); db.refresh(db_schedule); return db_schedule
CreateCommit(u, data) ==
  /\ TotalRows < MaxRows
  /\ schedules' = schedules \cup
        {[id |-> FreshId(schedules), village_id |-> data.village_id,
          gate_id |-> data.gate_id, operation_mode |-> data.operation_mode,
          days_of_week |-> data.days_of_week,
          start_time |-> data.start_time, end_time |-> data.end_time]}
  /\ resp' = [Reply("create_schedule", 201, u, data.gate_id) EXCEPT
                !.sid = FreshId(schedules)]

\* a create request handled with no other request in between
create_gate_schedule(u, data) ==
  /\ resp = NoResp
  /\ IF CreateRefusal(u, data) # 0
       THEN /\ resp' = Reply("create_schedule", CreateRefusal(u, data), u, data.gate_id)
            /\ UNCHANGED schedules
       ELSE CreateCommit(u, data)
  /\ UNCHANGED <<now, overrides, access_logs, lastOverride, txn, qr_code_records, qr_code_usage_logs>>

\* a create request in session p up to and including its overlap query
create_gate_schedule_query(p, u, data) ==
  /\ resp = NoResp
  /\ txn[p] = Idle
  /\ IF CreateRefusal(u, data) # 0
       THEN /\ resp' = Reply("create_schedule", CreateRefusal(u, data), u, data.gate_id)
            /\ UNCHANGED txn
       ELSE /\ txn' = [txn EXCEPT ![p] = [Idle EXCEPT !.kind = "create", !.u = u, !.data = data]]
            /\ UNCHANGED resp
  /\ UNCHANGED <<now, schedules, overrides, access_logs, lastOverride, qr_code_records, qr_code_usage_logs>>

\* the rest of that request: the insert and the commit
create_gate_schedule_commit(p) ==
  /\ resp = NoResp
  /\ txn[p].kind = "create"
  /\ CreateCommit(txn[p].u, txn[p].data)
  /\ txn' = [txn EXCEPT ![p] = Idle]
  /\ UNCHANGED <<now, overrides, access_logs, lastOverride, qr_code_records, qr_code_usage_logs>>

\* an update request carries only the fields the client set (exclude_unset):
\* a field left out is "" / {-1} / -1
UnsetUpdate ==
  [gate_id |-> "", operation_mode |-> "", days_of_week |-> {-1},
   start_time |-> -1, end_time |-> -1]

UpdateInputs ==
  {[UnsetUpdate EXCEPT !.operation_mode = m] : m \in Modes}
  \cup {[UnsetUpdate EXCEPT !.gate_id = g] : g \in Gates}
  \cup {[UnsetUpdate EXCEPT !.days_of_week = d] : d \in DaySets}
  \cup {[UnsetUpdate EXCEPT !.start_time = t] : t \in Times}
  \cup {[UnsetUpdate EXCEPT !.end_time = t] : t \in Times}
  \cup {[UnsetUpdate EXCEPT !.start_time = t1, !.end_time = t2] : t1 \in Times, t2 \in Times}

\* update_data.get(key, stored value) for each key the handler reads
NewGateId(upd, row) == IF upd.gate_id = "" THEN row.gate_id ELSE upd.gate_id

NewMode(upd, row) == IF upd.operation_mode = "" THEN row.operation_mode ELSE upd.operation_mode

NewDays(upd, row) == IF upd.days_of_week = {-1} THEN row.days_of_week ELSE upd.days_of_week

NewStart(upd, row) == IF upd.start_time = -1 THEN row.start_time ELSE upd.start_time

NewEnd(upd, row) == IF upd.end_time = -1 THEN row.end_time ELSE upd.end_time

\* (mutant) the time validation that looks at the request alone, and so only
\* when it carries both bounds
UpdateTimesInvalid_BothGiven(upd, row) ==
  /\ upd.start_time # -1
  /\ upd.end_time # -1
  /\ upd.start_time >= upd.end_time

\* "if updating time range, validate it": a bound the request leaves out is
\* the stored one
UpdateTimesInvalid(upd, row) ==
  /\ (upd.start_time # -1 \/ upd.end_time # -1)
  /\ NewStart(upd, row) >= NewEnd(upd, row)

\* the overlap filter of update_gate_schedule (the updated row itself excluded)
UpdateOverlapping(rows, v, schedule_id, upd, row) ==
  { s \in rows :
      /\ s.village_id = v
      /\ s.gate_id = NewGateId(upd, row)
      /\ s.id # schedule_id
      /\ s.days_of_week \cap NewDays(upd, row) # {}
      /\ s.start_time < NewEnd(upd, row)
      /\ s.end_time > NewStart(upd, row) }

update_gate_schedule(u, schedule_id, upd) ==
  LET found == {s \in schedules : s.id = schedule_id /\ s.village_id = u.village_id} IN
  /\ resp = NoResp
  /\ IF u.role # "admin"
       THEN /\ resp' = Reply("update_schedule", 403, u, "")
            /\ UNCHANGED schedules
     ELSE IF found = {}
       THEN /\ resp' = Reply("update_schedule", 404, u, "")
            /\ UNCHANGED schedules
     ELSE \E row \in found :
       IF UpdateTimesInvalid(upd, row)
         THEN /\ resp' = Reply("update_schedule", 400, u, row.gate_id)
              /\ UNCHANGED schedules
       ELSE IF /\ (upd.days_of_week # {-1} \/ upd.start_time # -1
                     \/ upd.end_time # -1 \/ upd.gate_id # "")
               /\ UpdateOverlapping(schedules, u.village_id, schedule_id, upd, row) # {}
         THEN /\ resp' = Reply("update_schedule", 400, u, row.gate_id)
              /\ UNCHANGED schedules
       ELSE /\ schedules' = (schedules \ {row}) \cup
                  {[row EXCEPT !.gate_id = NewGateId(upd, row),
                               !.operation_mode = NewMode(upd, row),
                               !.days_of_week = NewDays(upd, row),
                               !.start_time = NewStart(upd, row),
                               !.end_time = NewEnd(upd, row)]}
            /\ resp' = [Reply("update_schedule", 200, u, NewGateId(upd, row)) EXCEPT !.sid = schedule_id]
  /\ UNCHANGED <<now, overrides, access_logs, lastOverride, txn, qr_code_records, qr_code_usage_logs>>

\* (mutant) the delete that looks the schedule up by its id alone
delete_gate_schedule_AnyVillage(u, schedule_id) ==
  LET found == {s \in schedules : s.id = schedule_id} IN
  /\ resp = NoResp
  /\ IF u.role # "admin"
       THEN /\ resp' = Reply("delete_schedule", 403, u, "")
            /\ UNCHANGED schedules
     ELSE IF found = {}
       THEN /\ resp' = Reply("delete_schedule", 404, u, "")
            /\ UNCHANGED schedules
     ELSE /\ schedules' = schedules \ found
          /\ resp' = [Reply("delete_schedule", 204, u, "") EXCEPT !.sid = schedule_id]
  /\ UNCHANGED <<now, overrides, access_logs, lastOverride, txn, qr_code_records, qr_code_usage_logs>>

delete_gate_schedule(u, schedule_id) ==
  LET found == {s \in schedules : s.id = schedule_id /\ s.village_id = u.village_id} IN
  /\ resp = NoResp
  /\ IF u.role # "admin"
       THEN /\ resp' = Reply("delete_schedule", 403, u, "")
            /\ UNCHANGED schedules
     ELSE IF found = {}
       THEN /\ resp' = Reply("delete_schedule", 404, u, "")
            /\ UNCHANGED schedules
     ELSE /\ schedules' = schedules \ found
          /\ resp' = [Reply("delete_schedule", 204, u, "") EXCEPT !.sid = schedule_id]
  /\ UNCHANGED <<now, overrides, access_logs, lastOverride, txn, qr_code_records, qr_code_usage_logs>>

\* ---------------------------------------------------------------- overrides
\* "check if there are any schedules for this gate"
GateExists(rows, v, g) == \E s \in rows : s.village_id = v /\ s.gate_id = g

\* the rows the upsert and the clear look up: every override row of the gate
GateOverrides(rows, v, g) == {o \in rows : o.village_id = v /\ o.gate_id = g}

\* the durations on both sides of the two limits of the duration check
OverrideInputs ==
  [operation_mode : Modes \cup {"manual"},
   duration_minutes : {0, 1, MaxDuration, MaxDuration + 1}]

\* (mutant) the checks with a duration check that lets 0 minutes through
OverrideRefusal_ZeroAllowed(u, g, data) ==
  IF u.role \notin {"admin", "staff"} THEN 403
  ELSE IF ~GateExists(schedules, u.village_id, g) THEN 404
  ELSE IF data.operation_mode \notin {"staff_assisted", "automated"} THEN 400
  ELSE IF data.duration_minutes < 0 \/ data.duration_minutes > MaxDuration THEN 400
  ELSE 0

\* the checks of override_gate_operation_mode before the upsert: the status
\* of the refusal, or 0 when the request passes
OverrideRefusal(u, g, data) ==
  IF u.role \notin {"admin", "staff"} THEN 403
  ELSE IF ~GateExists(schedules, u.village_id, g) THEN 404
  ELSE IF data.operation_mode \notin {"staff_assisted", "automated"} THEN 400
  ELSE IF data.duration_minutes <= 0 \/ data.duration_minutes > MaxDuration THEN 400
  ELSE 0

\* expiry_time = now + timedelta(minutes=duration_minutes)
ExpiryTime(t, duration_minutes) == t + duration_minutes

\* the ids .first() of the upsert's lookup can return: 0 stands for None
FirstOverride(v, g) ==
  IF GateOverrides(overrides, v, g) = {} THEN {0}
  ELSE {o.id : o \in GateOverrides(overrides, v, g)}

\* (mutant) the update that leaves created_by as it was
UpdatedOverride_KeepsCreator(db_override, u, mode, expiry) ==
  [db_override EXCEPT !.operation_mode = mode, !.expiry_time = expiry]

\* the row the upsert writes over db_override
UpdatedOverride(db_override, u, mode, expiry) ==
  [db_override EXCEPT !.operation_mode = mode, !.expiry_time = expiry, !.created_by = u.id]

\* "create or update override record", db.commit() and the answer: found is the
\* id of the row the lookup returned, 0 when it returned none.  An UPDATE of a
\* row that is gone by the time of the commit fails the request.
OverrideCommit(u, g, mode, expiry, found) ==
  LET answer == [operation_mode |-> mode, expiry_time |-> expiry, created_by |-> u.id,
                 how |-> IF found = 0 THEN "insert"
                         ELSE IF \E o \in overrides : o.id = found /\ o.expiry_time > now
                           THEN "replace_active"
                         ELSE "replace_expired"]
      ok == [Reply("override", 200, u, g) EXCEPT !.mode = mode, !.expiry = expiry, !.by = u.id]
      rows == {o \in overrides : o.id = found}
  IN
  IF found # 0 /\ rows = {}
    THEN /\ resp' = Reply("override", 500, u, g)
         /\ UNCHANGED <<overrides, lastOverride>>
  ELSE IF found # 0
    THEN /\ overrides' = (overrides \ rows) \cup
                {UpdatedOverride(db_override, u, mode, expiry) : db_override \in rows}
         /\ lastOverride' = [lastOverride EXCEPT ![u.village_id][g] = answer]
         /\ resp' = ok
  ELSE /\ TotalRows < MaxRows
       /\ overrides' = overrides \cup
             {[id |-> FreshId(overrides), village_id |-> u.village_id, gate_id |-> g,
               operation_mode |-> mode, expiry_time |-> expiry, created_by |-> u.id]}
       /\ lastOverride' = [lastOverride EXCEPT ![u.village_id][g] = answer]
       /\ resp' = ok

\* an override request handled with no other request in between
override_gate_operation_mode(u, g, data) ==
  /\ resp = NoResp
  /\ IF OverrideRefusal(u, g, data) # 0
       THEN /\ resp' = Reply("override", OverrideRefusal(u, g, data), u, g)
            /\ UNCHANGED <<overrides, lastOverride>>
       ELSE \E found \in FirstOverride(u.village_id, g) :
              OverrideCommit(u, g, data.operation_mode,
                             ExpiryTime(now, data.duration_minutes), found)
  /\ UNCHANGED <<now, schedules, access_logs, txn, qr_code_records, qr_code_usage_logs>>

\* an override request in session p up to and including its lookup of the row
override_gate_operation_mode_query(p, u, g, data) ==
  /\ resp = NoResp
  /\ txn[p] = Idle
  /\ IF OverrideRefusal(u, g, data) # 0
       THEN /\ resp' = Reply("override", OverrideRefusal(u, g, data), u, g)
            /\ UNCHANGED txn
       ELSE \E found \in FirstOverride(u.village_id, g) :
              /\ txn' = [txn EXCEPT ![p] =
                    [Idle EXCEPT !.kind = "override", !.u = u, !.gate = g,
                                 !.mode = data.operation_mode,
                                 !.expiry = ExpiryTime(now, data.duration_minutes),
                                 !.found = found]]
              /\ UNCHANGED resp
  /\ UNCHANGED <<now, schedules, overrides, access_logs, lastOverride, qr_code_records, qr_code_usage_logs>>

\* the rest of that request: the update or the insert, and the commit
override_gate_operation_mode_commit(p) ==
  /\ resp = NoResp
  /\ txn[p].kind = "override"
  /\ OverrideCommit(txn[p].u, txn[p].gate, txn[p].mode, txn[p].expiry, txn[p].found)
  /\ txn' = [txn EXCEPT ![p] = Idle]
  /\ UNCHANGED <<now, schedules, access_logs, qr_code_records, qr_code_usage_logs>>

clear_gate_operation_mode_override(u, g) ==
  LET existing == GateOverrides(overrides, u.village_id, g) IN
  /\ resp = NoResp
  /\ IF u.role \notin {"admin", "staff"}
       THEN /\ resp' = Reply("clear_override", 403, u, g)
            /\ UNCHANGED <<overrides, lastOverride>>
     ELSE IF existing # {}
       THEN \E db_override \in existing :
              /\ overrides' = overrides \ {db_override}
              /\ lastOverride' = [lastOverride EXCEPT ![u.village_id][g] = NoOverride]
              /\ resp' = Reply("clear_override", 204, u, g)
     ELSE /\ resp' = Reply("clear_override", 204, u, g)
          /\ UNCHANGED <<overrides, lastOverride>>
  /\ UNCHANGED <<now, schedules, access_logs, txn, qr_code_records, qr_code_usage_logs>>

\* ---------------------------------------------------------------- effective mode
\* GET /gates/{gate_id}/effective-mode
\* the override filter of the query: rows of the gate with expiry_time > now
EffectiveActiveOverrides(rows, v, g, t) ==
  { o \in rows : o.village_id = v /\ o.gate_id = g /\ o.expiry_time > t }

\* the schedule filter of the query: rows of the gate that apply at t
EffectiveActiveSchedules(rows, v, g, t) ==
  { s \in rows :
      /\ s.village_id = v
      /\ s.gate_id = g
      /\ Weekday(t) \in s.days_of_week
      /\ s.start_time <= TimeOfDay(t)
      /\ s.end_time > TimeOfDay(t) }

\* the default of the endpoint when no schedule is active
EffectiveDefaultMode == "staff_assisted"

\* every response the endpoint can give in the current state: Query.first()
\* has no ORDER BY, so any row that passes the filter can be the first one
EffectiveModeResults(u, g) ==
  LET ov == EffectiveActiveOverrides(overrides, u.village_id, g, now)
      act == EffectiveActiveSchedules(schedules, u.village_id, g, now)
      ok == Reply("effective_mode", 200, u, g)
  IN
  IF ~GateExists(schedules, u.village_id, g)
    THEN {Reply("effective_mode", 404, u, g)}
  ELSE IF ov # {}
    THEN {[ok EXCEPT !.mode = o.operation_mode, !.source = "override",
                     !.expiry = o.expiry_time, !.by = o.created_by] : o \in ov}
  ELSE IF act # {}
    THEN {[ok EXCEPT !.mode = s.operation_mode, !.source = "schedule", !.sid = s.id] : s \in act}
  ELSE {[ok EXCEPT !.mode = EffectiveDefaultMode, !.source = "default"]}

\* (mutant) the endpoint sweeping the expired override rows as it reads
get_effective_gate_operation_mode_Sweeping(u, g) ==
  /\ resp = NoResp
  /\ resp' \in EffectiveModeResults(u, g)
  /\ overrides' = {o \in overrides : o.expiry_time > now}
  /\ UNCHANGED <<now, schedules, access_logs, lastOverride, txn, qr_code_records, qr_code_usage_logs>>

get_effective_gate_operation_mode(u, g) ==
  /\ resp = NoResp
  /\ resp' \in EffectiveModeResults(u, g)
  /\ UNCHANGED <<now, schedules, overrides, access_logs, lastOverride, txn, qr_code_records, qr_code_usage_logs>>

\* ---------------------------------------------------------------- scheduled mode
\* GET /gates/{gate_id}/mode: the mode by the schedules alone
ModeActiveSchedules(rows, v, g, t) ==
  { s \in rows :
      /\ s.village_id = v
      /\ s.gate_id = g
      /\ Weekday(t) \in s.days_of_week
      /\ s.start_time <= TimeOfDay(t)
      /\ s.end_time > TimeOfDay(t) }

ModeDefaultMode == "staff_assisted"

GateModeResults(u, g) ==
  LET act == ModeActiveSchedules(schedules, u.village_id, g, now)
      ok == Reply("mode", 200, u, g)
  IN
  IF ~GateExists(schedules, u.village_id, g)
    THEN {Reply("mode", 404, u, g)}
  ELSE IF act # {}
    THEN {[ok EXCEPT !.mode = s.operation_mode, !.sid = s.id] : s \in act}
  ELSE {[ok EXCEPT !.mode = ModeDefaultMode]}

get_gate_operation_mode(u, g) ==
  /\ resp = NoResp
  /\ resp' \in GateModeResults(u, g)
  /\ UNCHANGED <<now, schedules, overrides, access_logs, lastOverride, txn, qr_code_records, qr_code_usage_logs>>

\* ---------------------------------------------------------------- next change
\* GET /gates/{gate_id}/next-change
\* the orders in which Query.all() can return a set of rows (no ORDER BY)
Orderings(rows) ==
  { f \in [1 .. Cardinality(rows) -> rows] :
      \A r \in rows : \E i \in 1 .. Cardinality(rows) : f[i] = r }

\* datetime.combine(the date of t plus `days` days, time_of_day)
Combine(t, days, time_of_day) == ((t \div TicksPerDay) + days) * TicksPerDay + time_of_day

NoSchedule ==
  [id |-> 0, village_id |-> 0, gate_id |-> "", operation_mode |-> "",
   days_of_week |-> {}, start_time |-> -1, end_time |-> -1]

\* next_change = None
NoChange == [datetime |-> -1, schedule |-> NoSchedule, days_until |-> -1, type |-> ""]

\* db_override = None
NoOverrideRow ==
  [id |-> 0, village_id |-> 0, gate_id |-> "", operation_mode |-> "",
   expiry_time |-> -1, created_by |-> 0]

\* the override filter of the query
NextActiveOverrides(rows, v, g, t) ==
  { o \in rows : o.village_id = v /\ o.gate_id = g /\ o.expiry_time > t }

\* (mutant) the loop body that takes every start and end after t, earlier
\* than the change found so far or not
TodayStep_LastRowWins(next_change, schedule, t) ==
  IF schedule.end_time > TimeOfDay(t)
    THEN [datetime |-> Combine(t, 0, schedule.end_time), schedule |-> schedule,
          days_until |-> 0, type |-> "end"]
  ELSE IF schedule.start_time > TimeOfDay(t)
    THEN [datetime |-> Combine(t, 0, schedule.start_time), schedule |-> schedule,
          days_until |-> 0, type |-> "start"]
  ELSE next_change

\* the body of the loop over today's schedules: the start of `schedule`, then
\* its end, each taken when it lies after t and strictly before the change
\* found so far
TodayStep(next_change, schedule, t) ==
  LET start_datetime == Combine(t, 0, schedule.start_time)
      end_datetime == Combine(t, 0, schedule.end_time)
      after_start ==
        IF /\ schedule.start_time > TimeOfDay(t)
           /\ (next_change = NoChange \/ start_datetime < next_change.datetime)
          THEN [datetime |-> start_datetime, schedule |-> schedule,
                days_until |-> 0, type |-> "start"]
          ELSE next_change
  IN
  IF /\ schedule.end_time > TimeOfDay(t)
     /\ (after_start = NoChange \/ end_datetime < after_start.datetime)
    THEN [datetime |-> end_datetime, schedule |-> schedule,
          days_until |-> 0, type |-> "end"]
    ELSE after_start

\* "check for schedule changes today": the loop over the first i rows of
\* all_schedules, the rows of other weekdays left out
RECURSIVE TodayChange(_, _, _)
TodayChange(all_schedules, i, t) ==
  IF i = 0 THEN NoChange
  ELSE IF Weekday(t) \in all_schedules[i].days_of_week
    THEN TodayStep(TodayChange(all_schedules, i - 1, t), all_schedules[i], t)
  ELSE TodayChange(all_schedules, i - 1, t)

\* min(day_schedules, key=lambda s: s.start_time): the first of the rows with
\* the smallest start_time
EarliestSchedule(all_schedules, check_day) ==
  LET day == {i \in DOMAIN all_schedules : check_day \in all_schedules[i].days_of_week}
      first == CHOOSE i \in day : \A j \in day :
                 \/ all_schedules[i].start_time < all_schedules[j].start_time
                 \/ (all_schedules[i].start_time = all_schedules[j].start_time /\ i <= j)
  IN all_schedules[first]

\* (mutant) the weekday of the day looked at, not wrapped into the week
CheckDay_NoWrap(current_day, days_ahead) == current_day + days_ahead

\* check_day = (current_day + days_ahead) % 7
CheckDay(current_day, days_ahead) == (current_day + days_ahead) % DaysPerWeek

\* (mutant) the lookahead that stops a day short: for days_ahead in range(1, 7)
RECURSIVE LookAhead_SixDays(_, _, _)
LookAhead_SixDays(all_schedules, days_ahead, t) ==
  LET check_day == CheckDay(Weekday(t), days_ahead) IN
  IF days_ahead > DaysPerWeek - 1 THEN NoChange
  ELSE IF \E i \in DOMAIN all_schedules : check_day \in all_schedules[i].days_of_week
    THEN [datetime |-> Combine(t, days_ahead,
                               EarliestSchedule(all_schedules, check_day).start_time),
          schedule |-> EarliestSchedule(all_schedules, check_day),
          days_until |-> days_ahead, type |-> "start"]
  ELSE LookAhead_SixDays(all_schedules, days_ahead + 1, t)

\* "look ahead for the next few days": for days_ahead in range(1, 8)
RECURSIVE LookAhead(_, _, _)
LookAhead(all_schedules, days_ahead, t) ==
  LET check_day == CheckDay(Weekday(t), days_ahead) IN
  IF days_ahead > DaysPerWeek THEN NoChange
  ELSE IF \E i \in DOMAIN all_schedules : check_day \in all_schedules[i].days_of_week
    THEN [datetime |-> Combine(t, days_ahead,
                               EarliestSchedule(all_schedules, check_day).start_time),
          schedule |-> EarliestSchedule(all_schedules, check_day),
          days_until |-> days_ahead, type |-> "start"]
  ELSE LookAhead(all_schedules, days_ahead + 1, t)

\* "find the next schedule change"
ScheduleChange(all_schedules, t) ==
  IF TodayChange(all_schedules, Len(all_schedules), t) # NoChange
    THEN TodayChange(all_schedules, Len(all_schedules), t)
    ELSE LookAhead(all_schedules, 1, t)

\* (mutant) the mode after an end without the lookup of a starting schedule
NextModesAfterEnd_AlwaysDefault(rows, v, g, next_change) == {"staff_assisted"}

\* "when a schedule ends, find what mode comes next": the mode of a schedule
\* that starts at that time of that weekday, or the default
NextModesAfterEnd(rows, v, g, next_change) ==
  LET next_day == Weekday(next_change.datetime)
      next_time == next_change.schedule.end_time
      starting == { s \in rows :
                      /\ s.village_id = v
                      /\ s.gate_id = g
                      /\ next_day \in s.days_of_week
                      /\ s.start_time = next_time }
  IN IF starting # {} THEN {s.operation_mode : s \in starting} ELSE {"staff_assisted"}

\* "format response", for one order of the schedule rows and one override row
NextChangeAnswers(u, g, all_schedules, db_override) ==
  LET next_change == ScheduleChange(all_schedules, now)
      ok == [Reply("next_change", 200, u, g) EXCEPT !.has_next_change = TRUE]
  IN
  IF /\ db_override # NoOverrideRow
     /\ (next_change = NoChange \/ db_override.expiry_time < next_change.datetime)
    THEN {[ok EXCEPT !.next_change_type = "override_expiry",
                     !.mode = db_override.operation_mode,
                     !.next_mode = "scheduled",
                     !.change_time = db_override.expiry_time]}
  ELSE IF next_change # NoChange
    THEN IF next_change.type = "start"
           THEN {[ok EXCEPT !.next_change_type = "schedule_start",
                            !.sid = next_change.schedule.id,
                            !.next_mode = next_change.schedule.operation_mode,
                            !.change_time = next_change.datetime,
                            !.days_until = next_change.days_until]}
           ELSE {[ok EXCEPT !.next_change_type = "schedule_end",
                            !.sid = next_change.schedule.id,
                            !.next_mode = m,
                            !.change_time = next_change.datetime,
                            !.days_until = next_change.days_until] :
                   m \in NextModesAfterEnd(schedules, u.village_id, g, next_change)}
  ELSE {Reply("next_change", 200, u, g)}

\* every response the endpoint can give in the current state
NextChangeResults(u, g) ==
  LET rows == {s \in schedules : s.village_id = u.village_id /\ s.gate_id = g}
      ov == NextActiveOverrides(overrides, u.village_id, g, now)
  IN
  IF ~GateExists(schedules, u.village_id, g)
    THEN {Reply("next_change", 404, u, g)}
  ELSE IF rows = {}
    THEN {Reply("next_change", 200, u, g)}
  ELSE UNION { NextChangeAnswers(u, g, all_schedules, db_override) :
                 all_schedules \in Orderings(rows),
                 db_override \in (IF ov = {} THEN {NoOverrideRow} ELSE ov) }

get_next_gate_mode_change(u, g) ==
  /\ resp = NoResp
  /\ resp' \in NextChangeResults(u, g)
  /\ UNCHANGED <<now, schedules, overrides, access_logs, lastOverride, txn, qr_code_records, qr_code_usage_logs>>

\* ---------------------------------------------------------------- gate status
\* GET /gate/status of hardware_simulation.py, with its own copy of the lookup
StatusActiveOverrides(rows, v, g, t) ==
  { o \in rows : o.village_id = v /\ o.gate_id = g /\ o.expiry_time > t }

StatusActiveSchedules(rows, v, g, t) ==
  { s \in rows :
      /\ s.village_id = v
      /\ s.gate_id = g
      /\ Weekday(t) \in s.days_of_week
      /\ s.start_time <= TimeOfDay(t)
      /\ s.end_time > TimeOfDay(t) }

StatusDefaultMode == "staff_assisted"

\* the gates the simulated hardware knows
KnownGates == {"main_gate", "secondary_gate"}

GateStatusResults(u, g) ==
  LET ov == StatusActiveOverrides(overrides, u.village_id, g, now)
      act == StatusActiveSchedules(schedules, u.village_id, g, now)
      ok == Reply("gate_status", 200, u, g)
  IN
  IF g \notin KnownGates
    THEN {Reply("gate_status", 404, u, g)}
  ELSE IF ov # {}
    THEN {[ok EXCEPT !.mode = o.operation_mode, !.source = "override",
                     !.expiry = o.expiry_time] : o \in ov}
  ELSE IF act # {}
    THEN {[ok EXCEPT !.mode = s.operation_mode, !.source = "schedule"] : s \in act}
  ELSE {[ok EXCEPT !.mode = StatusDefaultMode, !.source = "default"]}

get_gate_status(u, g) ==
  /\ resp = NoResp
  /\ resp' \in GateStatusResults(u, g)
  /\ UNCHANGED <<now, schedules, overrides, access_logs, lastOverride, txn, qr_code_records, qr_code_usage_logs>>

\* ---------------------------------------------------------------- gate control
\* POST /gate/control of hardware_simulation.py, with its own copy of the lookup
ControlActiveOverrides(rows, v, g, t) ==
  { o \in rows : o.village_id = v /\ o.gate_id = g /\ o.expiry_time > t }

ControlActiveSchedules(rows, v, g, t) ==
  { s \in rows :
      /\ s.village_id = v
      /\ s.gate_id = g
      /\ Weekday(t) \in s.days_of_week
      /\ s.start_time <= TimeOfDay(t)
      /\ s.end_time > TimeOfDay(t) }

\* (mutant) the default of control_gate turned to automated
ControlDefaultMode_Automated == "automated"

ControlDefaultMode == "staff_assisted"

\* the operation modes the lookup of control_gate can come up with
ControlModes(u, g) ==
  LET ov == ControlActiveOverrides(overrides, u.village_id, g, now)
      act == ControlActiveSchedules(schedules, u.village_id, g, now)
  IN
  IF ov # {} THEN {[mode |-> o.operation_mode, source |-> "override"] : o \in ov}
  ELSE IF act # {} THEN {[mode |-> s.operation_mode, source |-> "schedule"] : s \in act}
  ELSE {[mode |-> ControlDefaultMode, source |-> "default"]}

\* gate_data: the action and the gate (no user_id, no property_id)
ControlInputs == [action : {"open", "close", "stop"}, gate_id : Gates]

control_gate(u, gate_data) ==
  LET g == gate_data.gate_id IN
  /\ resp = NoResp
  /\ IF u.role \notin {"admin", "staff", "resident"}
       THEN /\ resp' = Reply("control_gate", 403, u, g)
            /\ UNCHANGED access_logs
     ELSE IF gate_data.action \notin {"open", "close"}
       THEN /\ resp' = Reply("control_gate", 400, u, g)
            /\ UNCHANGED access_logs
     ELSE \E m \in ControlModes(u, g) :
       IF m.mode = "staff_assisted" /\ u.role = "resident"
         THEN /\ resp' = [Reply("control_gate", 403, u, g) EXCEPT
                            !.mode = m.mode, !.source = m.source, !.by = u.id]
              /\ UNCHANGED access_logs
       ELSE /\ TotalRows < MaxRows
            /\ access_logs' = Append(access_logs,
                  [village_id |-> u.village_id, user_id |-> u.id,
                   direction |-> IF gate_data.action = "open" THEN "entry" ELSE "exit",
                   status |-> "granted"])
            /\ resp' = [Reply("control_gate", 200, u, g) EXCEPT
                          !.mode = m.mode, !.source = m.source, !.by = u.id]
  /\ UNCHANGED <<now, schedules, overrides, lastOverride, txn, qr_code_records, qr_code_usage_logs>>

\* the response leaves the server
Respond ==
  /\ resp # NoResp
  /\ resp' = NoResp
  /\ UNCHANGED <<now, schedules, overrides, access_logs, lastOverride, txn, qr_code_records, qr_code_usage_logs>>

\* time passes between two requests
Tick ==
  /\ resp = NoResp
  /\ now < MaxNow
  /\ now' = now + 1
  /\ UNCHANGED resp
  /\ UNCHANGED <<schedules, overrides, access_logs, lastOverride, txn, qr_code_records, qr_code_usage_logs>>

Next ==
  \/ \E u \in Users, data \in ScheduleInputs : create_gate_schedule(u, data)
  \/ \E u \in Users, sid \in 1 .. MaxRows, upd \in UpdateInputs :
        update_gate_schedule(u, sid, upd)
  \/ \E u \in Users, sid \in 1 .. MaxRows : delete_gate_schedule(u, sid)
  \/ \E u \in Users, g \in Gates, data \in OverrideInputs :
        override_gate_operation_mode(u, g, data)
  \/ \E u \in Users, g \in Gates : clear_gate_operation_mode_override(u, g)
  \/ \E u \in Users, g \in Gates : get_effective_gate_operation_mode(u, g)
  \/ \E u \in Users, g \in Gates : get_gate_status(u, g)
  \/ \E u \in Users, g \in Gates : get_gate_operation_mode(u, g)
  \/ \E u \in Users, g \in Gates : get_next_gate_mode_change(u, g)
  \/ \E u \in Users, gate_data \in ControlInputs : control_gate(u, gate_data)
  \/ Respond
  \/ Tick

Spec == Init /\ [][Next]_vars

\* ---------------------------------------------------------------- what the claims speak of
\* the requests that look the operation mode of a gate up, and those of their
\* responses that come out of the lookup (control_gate refuses an unknown
\* action before it looks the mode up)
Lookups == {"effective_mode", "gate_status", "control_gate"}

IsLookup(r) == r.op \in Lookups /\ ~(r.op = "control_gate" /\ r.status = 400)

\* the override rows of a gate that have not expired at instant t
LiveOverrides(v, g, t) ==
  {o \in overrides : o.village_id = v /\ o.gate_id = g /\ o.expiry_time > t}

\* the schedule rows of a gate whose days hold the weekday of t and whose
\* half-open window [start_time, end_time) holds the time of day of t
MatchingSchedules(v, g, t) ==
  {s \in schedules :
     /\ s.village_id = v /\ s.gate_id = g
     /\ Weekday(t) \in s.days_of_week
     /\ s.start_time <= TimeOfDay(t) /\ TimeOfDay(t) < s.end_time}

\* ---------------------------------------------------------------- concurrent requests
\* the requests of two sessions interleave between a handler's query and its
\* commit; the other handlers run as above
Admin == CHOOSE u \in Users : u.role = "admin"

\* two schedules of the same gate and day whose windows overlap, with
\* different start times
ConcScheduleInputs ==
  { [village_id |-> 1, gate_id |-> "main_gate", operation_mode |-> "staff_assisted",
     days_of_week |-> {0}, start_time |-> 0, end_time |-> TicksPerDay - 1],
    [village_id |-> 1, gate_id |-> "main_gate", operation_mode |-> "automated",
     days_of_week |-> {0}, start_time |-> 1, end_time |-> TicksPerDay - 1] }

ConcOverrideInputs == [operation_mode : Modes, duration_minutes : {MaxDuration}]

NextConc ==
  \/ \E p \in Sessions, data \in ConcScheduleInputs :
        create_gate_schedule_query(p, Admin, data)
  \/ \E p \in Sessions : create_gate_schedule_commit(p)
  \/ \E p \in Sessions, g \in Gates, data \in ConcOverrideInputs :
        override_gate_operation_mode_query(p, Admin, g, data)
  \/ \E p \in Sessions : override_gate_operation_mode_commit(p)
  \/ \E sid \in 1 .. MaxRows : delete_gate_schedule(Admin, sid)
  \/ \E g \in Gates : clear_gate_operation_mode_override(Admin, g)
  \/ \E g \in Gates : get_effective_gate_operation_mode(Admin, g)
  \/ Respond
  \/ Tick

SpecConc == Init /\ [][NextConc]_vars

\* ---------------------------------------------------------------- one schedule through a week
\* a gate with one stored schedule of one weekday, asked for its next change
\* at any instant of a week
WeekInstants == 0 .. (DaysPerWeek * TicksPerDay - 1)

WeekSchedules ==
  { s \in [id : {1}, village_id : {Admin.village_id}, gate_id : Gates,
           operation_mode : Modes, days_of_week : {{d} : d \in 0 .. (DaysPerWeek - 1)},
           start_time : Times, end_time : Times] :
      s.start_time < s.end_time }

InitWeek ==
  /\ now \in WeekInstants
  /\ \E s \in WeekSchedules : schedules = {s}
  /\ overrides = {}
  /\ access_logs = << >>
  /\ lastOverride = [v \in Villages |-> [g \in Gates |-> NoOverride]]
  /\ txn = [p \in Sessions |-> Idle]
  /\ resp = NoResp
  /\ qr_code_records = {}
  /\ qr_code_usage_logs = << >>

NextWeek ==
  \/ \E g \in Gates : get_next_gate_mode_change(Admin, g)
  \/ Respond

SpecWeek == InitWeek /\ [][NextWeek]_vars

\* ---------------------------------------------------------------- any stored rows
\* the two read endpoints over whatever rows the table gate_schedules can
\* hold: its columns carry no constraint between start_time and end_time
StoredSchedules ==
  [village_id : Villages, gate_id : Gates, operation_mode : Modes,
   days_of_week : DaySets, start_time : Times, end_time : Times]

InitStored ==
  /\ now \in 0 .. MaxNow
  /\ \E n \in 1 .. MaxRows : \E row \in [1 .. n -> StoredSchedules] :
       schedules = { [id |-> i, village_id |-> row[i].village_id,
                      gate_id |-> row[i].gate_id,
                      operation_mode |-> row[i].operation_mode,
                      days_of_week |-> row[i].days_of_week,
                      start_time |-> row[i].start_time,
                      end_time |-> row[i].end_time] : i \in 1 .. n }
  /\ overrides = {}
  /\ access_logs = << >>
  /\ lastOverride = [v \in Villages |-> [g \in Gates |-> NoOverride]]
  /\ txn = [p \in Sessions |-> Idle]
  /\ resp = NoResp
  /\ qr_code_records = {}
  /\ qr_code_usage_logs = << >>

NextStored ==
  \/ \E g \in Gates : get_effective_gate_operation_mode(Admin, g)
  \/ \E g \in Gates : get_next_gate_mode_change(Admin, g)
  \/ Respond

SpecStored == InitStored /\ [][NextStored]_vars

\* ---------------------------------------------------------------- stores of a week
\* the next-change endpoint over the stores a series of accepted requests
\* leaves: one or two valid schedules of a gate that do not overlap, each of
\* one weekday or of every day, with or without an override row (expired or
\* not), asked at any instant of a week
ResolveDaySets == {{d} : d \in 0 .. (DaysPerWeek - 1)} \cup {0 .. (DaysPerWeek - 1)}

ResolveSchedules(id) ==
  { s \in [id : {id}, village_id : {Admin.village_id}, gate_id : Gates,
           operation_mode : Modes, days_of_week : ResolveDaySets,
           start_time : Times, end_time : Times] :
      s.start_time < s.end_time }

ResolveOverrides(t) ==
  [id : {1}, village_id : {Admin.village_id}, gate_id : Gates,
   operation_mode : {"automated"}, expiry_time : t .. (t + MaxDuration),
   created_by : {Admin.id}]

InitResolve ==
  /\ now \in WeekInstants
  /\ \E a \in ResolveSchedules(1) :
       \/ schedules = {a}
       \/ \E b \in ResolveSchedules(2) :
            /\ ~(/\ a.gate_id = b.gate_id
                 /\ a.days_of_week \cap b.days_of_week # {}
                 /\ a.start_time < b.end_time
                 /\ a.end_time > b.start_time)
            /\ schedules = {a, b}
  /\ \/ overrides = {}
     \/ \E o \in ResolveOverrides(now) : overrides = {o}
  /\ access_logs = << >>
  /\ lastOverride = [v \in Villages |-> [g \in Gates |-> NoOverride]]
  /\ txn = [p \in Sessions |-> Idle]
  /\ resp = NoResp
  /\ qr_code_records = {}
  /\ qr_code_usage_logs = << >>

NextResolve ==
  \/ \E g \in Gates : get_next_gate_mode_change(Admin, g)
  \/ Respond

SpecResolve == InitResolve /\ [][NextResolve]_vars

\* ---------------------------------------------------------------- two villages, two gates
\* the requests of the admins of two villages over two gates; each (village,
\* main_gate) starts with nothing, a schedule, an override left behind by a
\* deleted schedule, or both
IsoVillages == {1, 2}

IsoGates == {"main_gate", "secondary_gate"}

IsoUsers ==
  { [id |-> 1, role |-> "admin", village_id |-> 1],
    [id |-> 4, role |-> "admin", village_id |-> 2] }

IsoScheduleInputs ==
  { d \in [village_id : IsoVillages, gate_id : IsoGates, operation_mode : Modes,
           days_of_week : {{0}}, start_time : {0}, end_time : Times] :
      d.start_time < d.end_time }

IsoUpdateInputs ==
  {[UnsetUpdate EXCEPT !.operation_mode = m] : m \in Modes}
  \cup {[UnsetUpdate EXCEPT !.gate_id = g] : g \in IsoGates}

IsoOverrideInputs == [operation_mode : Modes, duration_minutes : {MaxDuration}]

\* the rows a village starts with: v is the village and the id of its rows
IsoStoredSchedules(v) ==
  [id : {v}, village_id : {v}, gate_id : {"main_gate"}, operation_mode : Modes,
   days_of_week : {{0}}, start_time : {0}, end_time : {TicksPerDay - 1}]

IsoStoredOverrides(v) ==
  [id : {v}, village_id : {v}, gate_id : {"main_gate"}, operation_mode : Modes,
   expiry_time : {MaxDuration}, created_by : {u.id : u \in {w \in IsoUsers : w.village_id = v}}]

InitIso ==
  /\ now = 0
  /\ \E stored \in [IsoVillages -> SUBSET {"schedule", "override"}] :
       /\ \E row \in [IsoVillages -> UNION {IsoStoredSchedules(v) : v \in IsoVillages}] :
            /\ \A v \in IsoVillages : row[v] \in IsoStoredSchedules(v)
            /\ schedules = {row[v] : v \in {w \in IsoVillages : "schedule" \in stored[w]}}
       /\ \E row \in [IsoVillages -> UNION {IsoStoredOverrides(v) : v \in IsoVillages}] :
            /\ \A v \in IsoVillages : row[v] \in IsoStoredOverrides(v)
            /\ overrides = {row[v] : v \in {w \in IsoVillages : "override" \in stored[w]}}
            /\ lastOverride =
                 [v \in IsoVillages |-> [g \in IsoGates |->
                    IF g = "main_gate" /\ "override" \in stored[v]
                      THEN [operation_mode |-> row[v].operation_mode,
                            expiry_time |-> row[v].expiry_time,
                            created_by |-> row[v].created_by, how |-> "insert"]
                      ELSE NoOverride]]
  /\ access_logs = << >>
  /\ txn = [p \in Sessions |-> Idle]
  /\ resp = NoResp
  /\ qr_code_records = {}
  /\ qr_code_usage_logs = << >>

NextIso ==
  \/ \E u \in IsoUsers, data \in IsoScheduleInputs : create_gate_schedule(u, data)
  \/ \E u \in IsoUsers, sid \in 1 .. MaxRows, upd \in IsoUpdateInputs :
        update_gate_schedule(u, sid, upd)
  \/ \E u \in IsoUsers, sid \in 1 .. MaxRows : delete_gate_schedule(u, sid)
  \/ \E u \in IsoUsers, g \in IsoGates, data \in IsoOverrideInputs :
        override_gate_operation_mode(u, g, data)
  \/ \E u \in IsoUsers, g \in IsoGates : clear_gate_operation_mode_override(u, g)
  \/ \E u \in IsoUsers, g \in IsoGates : get_effective_gate_operation_mode(u, g)
  \/ \E u \in IsoUsers, g \in IsoGates : get_next_gate_mode_change(u, g)
  \/ Respond
  \/ Tick

SpecIso == InitIso /\ [][NextIso]_vars

\* ---------------------------------------------------------------- QR codes
\* log rows the model writes before it stops scanning
MaxScans == 3

\* None in a DateTime column
NoTime == 0 - 1

\* datetime.min: a sum of a datetime and a timedelta below it raises OverflowError
DatetimeMin == 0

QRCodeStatus == {"unused", "active", "completed", "expired", "cancelled"}

QRCodeAction == {"entry", "exit"}

\* visit_duration_minutes is an Integer column that create_advanced_qr_code
\* stores as given: the negative one takes the exit deadline of an early entry
\* below DatetimeMin
QRDurations == {0 - 2, 1, 2}

QRMaxEntries == 0 .. 2

\* the row create_advanced_qr_code stores
CreatedQRCodeRecords ==
  [id : {1}, qr_code_hash : {1}, created_by : {Admin.id},
   valid_from : {0, 1}, valid_until : {1, MaxNow},
   visit_duration_minutes : QRDurations, max_entries : QRMaxEntries,
   used_entries : {0}, entry_time : {NoTime}, exit_deadline : {NoTime},
   exit_time : {NoTime}, status : {"unused"}, is_active : {TRUE}]

is_valid_now(r, t) ==
  /\ r.is_active
  /\ r.status \in {"unused", "active"}
  /\ r.valid_from <= t
  /\ t <= r.valid_until

can_enter(r, t) ==
  /\ is_valid_now(r, t)
  /\ r.used_entries < r.max_entries
  /\ r.status = "unused"

can_exit(r, t) ==
  /\ r.status = "active"
  /\ r.entry_time # NoTime
  /\ r.exit_deadline # NoTime
  /\ t <= r.exit_deadline
  /\ r.exit_time = NoTime

\* the record after the call and what the call returned; "raised" is the
\* OverflowError of the exit deadline, after used_entries and entry_time
\* have been assigned
mark_entry(r, t) ==
  IF ~can_enter(r, t)
    THEN [record |-> r, returned |-> "False"]
  ELSE IF t + r.visit_duration_minutes < DatetimeMin
    THEN [record |-> [r EXCEPT !.used_entries = @ + 1, !.entry_time = t],
          returned |-> "raised"]
  ELSE [record |-> [r EXCEPT !.used_entries = @ + 1, !.entry_time = t,
                             !.exit_deadline = t + r.visit_duration_minutes,
                             !.status = "active"],
        returned |-> "True"]

mark_exit(r, t) ==
  IF ~can_exit(r, t)
    THEN [record |-> r, returned |-> "False"]
  ELSE [record |-> [r EXCEPT !.exit_time = t, !.status = "completed"],
        returned |-> "True"]

QRResult(r, success, error_code) ==
  [record |-> r, success |-> success, error_code |-> error_code]

\* an exception of the handler is caught by verify_and_use_qr_code, which
\* answers INTERNAL_ERROR and commits the session, the record as the
\* exception left it included
handle_entry(r, t) ==
  IF ~can_enter(r, t) /\ ~is_valid_now(r, t)
    THEN QRResult(r, FALSE, IF t < r.valid_from THEN "NOT_YET_VALID" ELSE "EXPIRED")
  ELSE IF ~can_enter(r, t) /\ r.used_entries >= r.max_entries
    THEN QRResult(r, FALSE, "MAX_ENTRIES_REACHED")
  ELSE IF ~can_enter(r, t) /\ r.status # "unused"
    THEN QRResult(r, FALSE, "INVALID_STATUS")
  ELSE LET m == mark_entry(r, t) IN
       IF m.returned = "True" THEN QRResult(m.record, TRUE, "")
       ELSE IF m.returned = "False" THEN QRResult(m.record, FALSE, "ENTRY_FAILED")
       ELSE QRResult(m.record, FALSE, "INTERNAL_ERROR")

handle_exit(r, t) ==
  IF ~can_exit(r, t) /\ r.status # "active"
    THEN QRResult(r, FALSE, "NOT_ACTIVE")
  ELSE IF ~can_exit(r, t) /\ r.entry_time = NoTime
    THEN QRResult(r, FALSE, "NO_ENTRY_RECORD")
  ELSE IF ~can_exit(r, t) /\ r.exit_time # NoTime
    THEN QRResult(r, FALSE, "ALREADY_EXITED")
  ELSE IF ~can_exit(r, t) /\ r.exit_deadline = NoTime
    THEN QRResult(r, FALSE, "INTERNAL_ERROR")
  ELSE IF ~can_exit(r, t) /\ t > r.exit_deadline
    THEN QRResult(r, FALSE, "EXIT_DEADLINE_PASSED")
  ELSE LET m == mark_exit(r, t) IN
       IF m.returned = "True" THEN QRResult(m.record, TRUE, "")
       ELSE QRResult(m.record, FALSE, "EXIT_FAILED")

QRReply(op, success, error_code) ==
  [NoResp EXCEPT !.op = op, !.at = now, !.success = success, !.error_code = error_code]

verify_and_use_qr_code(qr_code_hash, action) ==
  LET found == {r \in qr_code_records : r.qr_code_hash = qr_code_hash} IN
  /\ resp = NoResp
  /\ IF found = {}
       THEN /\ resp' = QRReply(action, FALSE, "QR_NOT_FOUND")
            /\ UNCHANGED <<qr_code_records, qr_code_usage_logs>>
     ELSE \E r \in found :
       LET result == IF action = "entry" THEN handle_entry(r, now) ELSE handle_exit(r, now) IN
       /\ Len(qr_code_usage_logs) < MaxScans
       /\ qr_code_records' = (qr_code_records \ {r}) \cup {result.record}
       /\ qr_code_usage_logs' = Append(qr_code_usage_logs,
             [qr_code_id |-> r.id, action |-> action, gate_id |-> "main_gate",
              success |-> result.success])
       /\ resp' = QRReply(action, result.success, result.error_code)
  /\ UNCHANGED <<now, schedules, overrides, access_logs, lastOverride, txn>>

manual_release_qr_code(qr_code_id, u) ==
  LET found == {r \in qr_code_records : r.id = qr_code_id} IN
  /\ resp = NoResp
  /\ IF found = {}
       THEN /\ resp' = QRReply("manual_release", FALSE, "QR_NOT_FOUND")
            /\ UNCHANGED <<qr_code_records, qr_code_usage_logs>>
     ELSE \E r \in found :
       IF ~(u.role \in {"admin", "staff"} \/ r.created_by = u.id)
         THEN /\ resp' = QRReply("manual_release", FALSE, "NOT_AUTHORIZED")
              /\ UNCHANGED <<qr_code_records, qr_code_usage_logs>>
       ELSE IF r.status # "active"
         THEN /\ resp' = QRReply("manual_release", FALSE, "CANNOT_RELEASE")
              /\ UNCHANGED <<qr_code_records, qr_code_usage_logs>>
       ELSE /\ Len(qr_code_usage_logs) < MaxScans
            /\ qr_code_records' = (qr_code_records \ {r}) \cup
                  {[r EXCEPT !.exit_time = now, !.status = "completed"]}
            /\ qr_code_usage_logs' = Append(qr_code_usage_logs,
                  [qr_code_id |-> r.id, action |-> "exit", gate_id |-> "manual_release",
                   success |-> TRUE])
            /\ resp' = QRReply("manual_release", TRUE, "")
  /\ UNCHANGED <<now, schedules, overrides, access_logs, lastOverride, txn>>

\* one code has been created; it is scanned, released, and time passes
InitQR ==
  /\ now = 0
  /\ schedules = {}
  /\ overrides = {}
  /\ access_logs = << >>
  /\ lastOverride = [v \in Villages |-> [g \in Gates |-> NoOverride]]
  /\ txn = [p \in Sessions |-> Idle]
  /\ resp = NoResp
  /\ \E r \in CreatedQRCodeRecords : qr_code_records = {r}
  /\ qr_code_usage_logs = << >>

NextQR ==
  \/ \E qr_code_hash \in 1 .. 2, action \in QRCodeAction :
        verify_and_use_qr_code(qr_code_hash, action)
  \/ \E qr_code_id \in 1 .. 2, u \in Users : manual_release_qr_code(qr_code_id, u)
  \/ Respond
  \/ Tick

SpecQR == InitQR /\ [][NextQR]_vars

\* ---------------------------------------------------------------- claims
\* C1: whenever a gate has an override with expiry_time > now, each lookup of
\* the gate's mode (effective-mode endpoint, gate status, gate control)
\* answers the override's operation mode with source "override" and, where
\* the answer carries an expiry, the override's expiry_time, whatever
\* schedules the gate has.
C1_OverrideAlwaysWins ==
  (IsLookup(resp) /\ LiveOverrides(resp.village, resp.gate, now) # {}) =>
    \E o \in LiveOverrides(resp.village, resp.gate, now) :
      /\ resp.mode = o.operation_mode
      /\ resp.source = "override"
      /\ (resp.op # "control_gate" => resp.expiry = o.expiry_time)

\* C2: a lookup answers "automated" only if an unexpired override of the gate
\* is automated, or no override is unexpired and an automated schedule of the
\* gate matches now; in every other state it answers "staff_assisted".
AutomatedApplies(v, g, t) ==
  \/ \E o \in LiveOverrides(v, g, t) : o.operation_mode = "automated"
  \/ /\ LiveOverrides(v, g, t) = {}
     /\ \E s \in MatchingSchedules(v, g, t) : s.operation_mode = "automated"

C2_AutomatedOnlyWhenConfigured ==
  IsLookup(resp) =>
    /\ resp.mode = "automated" => AutomatedApplies(resp.village, resp.gate, now)
    /\ ~AutomatedApplies(resp.village, resp.gate, now) => resp.mode = "staff_assisted"

\* C3: an override expires by time comparison alone: while its row is stored,
\* a lookup answers source "override" at every now < expiry_time and never at
\* now >= expiry_time.
C3_ExpiryByTimeComparison ==
  IsLookup(resp) =>
    \A o \in GateOverrides(overrides, resp.village, resp.gate) :
      (resp.source = "override") <=> (now < o.expiry_time)

\* C4: once every concurrent override request has completed, a (village,
\* gate) has at most one override row.
C4_AtMostOneOverrideRow ==
  (\A p \in Sessions : txn[p] = Idle) =>
    \A v \in Villages, g \in Gates : Cardinality(GateOverrides(overrides, v, g)) <= 1

\* C5: after any sequential series of override and clear requests each
\* (village, gate) has at most one override row, and that row carries the
\* operation mode, expiry time and creator of the most recent accepted
\* override request (none after a clear).
C5_SingleRowOfLatestRequest ==
  \A v \in Villages, g \in Gates :
    LET rows == GateOverrides(overrides, v, g)
        last == lastOverride[v][g]
    IN /\ Cardinality(rows) <= 1
       /\ last = NoOverride => rows = {}
       /\ last # NoOverride =>
            \E o \in rows : /\ o.operation_mode = last.operation_mode
                            /\ o.expiry_time = last.expiry_time
                            /\ o.created_by = last.created_by

\* C5 witness: the override request just answered wrote over a row that had
\* already expired, with another mode, and the stored row is the new one
C5_ReplacedExpiredOverride ==
  /\ resp.op = "override" /\ resp.status = 200
  /\ lastOverride[resp.village][resp.gate].how = "replace_expired"
  /\ \E o \in GateOverrides(overrides, resp.village, resp.gate) :
       o.operation_mode = "automated" /\ o.created_by = 2 /\ o.expiry_time > now

\* C6: with no unexpired override a lookup answers a schedule's mode with
\* source "schedule" exactly when that schedule's days hold now's weekday and
\* start_time <= time of day < end_time; when no schedule does, it answers
\* "staff_assisted" with source "default".
C6_ScheduleWindowHalfOpen ==
  (IsLookup(resp) /\ LiveOverrides(resp.village, resp.gate, now) = {}) =>
    LET match == MatchingSchedules(resp.village, resp.gate, now) IN
    /\ match # {} =>
         /\ resp.source = "schedule"
         /\ \E s \in match : /\ resp.mode = s.operation_mode
                             /\ (resp.op = "effective_mode" => resp.sid = s.id)
    /\ match = {} => (resp.mode = "staff_assisted" /\ resp.source = "default")

\* C7: for a gate with no schedule and no override a lookup answers
\* "staff_assisted" with source "default" at every now, and not "Gate not
\* found".
C7_EmptyGateGetsDefault ==
  ( /\ IsLookup(resp)
    /\ ~GateExists(schedules, resp.village, resp.gate)
    /\ GateOverrides(overrides, resp.village, resp.gate) = {} ) =>
    /\ resp.status # 404
    /\ resp.mode = "staff_assisted"
    /\ resp.source = "default"

\* C8: when several schedules of a gate match now, the effective-mode
\* endpoint answers the matching schedule with the earliest start_time.
C8_EarliestStartWins ==
  (resp.op = "effective_mode" /\ resp.source = "schedule") =>
    \A s \in MatchingSchedules(resp.village, resp.gate, now) :
      \A r \in MatchingSchedules(resp.village, resp.gate, now) :
        r.id = resp.sid => r.start_time <= s.start_time

\* C9: the effective-mode endpoint is deterministic: the answer it has given
\* is the only answer it can give for the same now, schedules and overrides.
C9_SameInputsSameAnswer ==
  resp.op = "effective_mode" => EffectiveModeResults(Admin, resp.gate) = {resp}

\* C10: after any sequential series of schedule create, update and delete
\* requests no two stored schedules of the same (village, gate) overlap
\* (intersecting days, A.start < B.end and A.end > B.start), and a create or
\* update that is refused leaves the stored schedules as they were.
SchedulesOverlap(a, b) ==
  /\ a.days_of_week \cap b.days_of_week # {}
  /\ a.start_time < b.end_time
  /\ a.end_time > b.start_time

NoOverlap(rows) ==
  \A a \in rows, b \in rows :
    (a.id # b.id /\ a.village_id = b.village_id /\ a.gate_id = b.gate_id)
      => ~SchedulesOverlap(a, b)

C10_NoOverlappingSchedules ==
  [][ /\ NoOverlap(schedules')
      /\ (resp'.op \in {"create_schedule", "update_schedule"}
            /\ resp'.status \notin {200, 201}) => schedules' = schedules ]_vars

\* C10 witness: two schedules of one gate share a day, kept apart by their
\* windows alone, after an update was accepted
C10_TwoSchedulesShareADay ==
  /\ resp.op = "update_schedule" /\ resp.status = 200
  /\ \E a \in schedules, b \in schedules :
       /\ a.id # b.id /\ a.gate_id = b.gate_id
       /\ a.days_of_week \cap b.days_of_week # {}

\* C11: every stored schedule has start_time < end_time after any series of
\* create and update requests: a create with start_time >= end_time is
\* refused, and an update that sets only one of the two bounds is validated
\* against the other, stored, bound.
C11_StartBeforeEnd ==
  \A s \in schedules : s.start_time < s.end_time

\* C11 witness: an update of the only stored schedule was refused with 400;
\* with no other row to overlap, the refusal is the time validation
C11_UpdateRefusedForItsTimes ==
  /\ resp.op = "update_schedule" /\ resp.status = 400
  /\ Cardinality(schedules) = 1

\* the instants after t, within the coming week, at which a schedule of the
\* gate starts or ends
Boundaries(v, g, t) ==
  { b \in (t + 1) .. (t + DaysPerWeek * TicksPerDay) :
      \E s \in schedules :
        /\ s.village_id = v /\ s.gate_id = g
        /\ Weekday(b) \in s.days_of_week
        /\ TimeOfDay(b) \in {s.start_time, s.end_time} }

\* the mode the schedules and the default give at instant t, overrides left out
ScheduledModes(v, g, t) ==
  IF MatchingSchedules(v, g, t) # {}
    THEN {s.operation_mode : s \in MatchingSchedules(v, g, t)}
    ELSE {"staff_assisted"}

\* C12: for two schedules A and B of a gate on the same day with
\* A.end_time = B.start_time, now inside A's window and no override, the
\* next-change endpoint answers change_time = A.end_time, type schedule_end
\* and next_mode = B's mode, whatever the order of the rows.
C12_AbuttingEndNamesNextSchedule ==
  ( /\ resp.op = "next_change" /\ resp.status = 200
    /\ LiveOverrides(resp.village, resp.gate, now) = {} ) =>
    \A a \in schedules, b \in schedules :
      ( /\ a.id # b.id
        /\ a.village_id = resp.village /\ a.gate_id = resp.gate
        /\ b.village_id = resp.village /\ b.gate_id = resp.gate
        /\ Weekday(now) \in (a.days_of_week \cap b.days_of_week)
        /\ a.end_time = b.start_time
        /\ a.start_time <= TimeOfDay(now) /\ TimeOfDay(now) < a.end_time ) =>
        /\ resp.has_next_change
        /\ resp.change_time = Combine(now, 0, a.end_time)
        /\ resp.next_change_type = "schedule_end"
        /\ resp.next_mode = b.operation_mode

\* C13: when the expiry_time of an unexpired override equals the earliest
\* schedule boundary after now, the next-change endpoint answers type
\* override_expiry with change_time = expiry_time, not a schedule event.
C13_OverrideExpiryWinsTheTie ==
  (resp.op = "next_change" /\ resp.status = 200) =>
    \A o \in LiveOverrides(resp.village, resp.gate, now) :
      ( /\ o.expiry_time \in Boundaries(resp.village, resp.gate, now)
        /\ \A b \in Boundaries(resp.village, resp.gate, now) : o.expiry_time <= b ) =>
        /\ resp.next_change_type = "override_expiry"
        /\ resp.change_time = o.expiry_time

\* C14: when the next-change endpoint answers type override_expiry, its
\* next_mode is the operation mode the schedules give at the instant
\* expiry_time with the override left out: the mode of the schedule that
\* covers that instant, or staff_assisted when none does.
C14_ExpiryNextModeIsResolved ==
  (resp.op = "next_change" /\ resp.next_change_type = "override_expiry") =>
    resp.next_mode \in ScheduledModes(resp.village, resp.gate, resp.change_time)

\* C15: for a gate with no schedule and no override the next-change endpoint
\* answers has_next_change = false as a normal result, at every now.
C15_EmptyGateHasNoNextChange ==
  ( /\ resp.op = "next_change"
    /\ ~GateExists(schedules, resp.village, resp.gate)
    /\ GateOverrides(overrides, resp.village, resp.gate) = {} ) =>
    /\ resp.status = 200
    /\ ~resp.has_next_change

\* C16: for a gate whose only schedule applies to the single weekday d, asked
\* with no override on another weekday c, the next-change endpoint gives one
\* answer: a schedule_start at the schedule's start_time on the date
\* (d - c) mod 7 days after today, 1 to 6 days ahead.
C16_WeeklyWraparound ==
  ( /\ resp.op = "next_change"
    /\ LiveOverrides(resp.village, resp.gate, now) = {} ) =>
    \A s \in schedules : \A d \in s.days_of_week :
      ( /\ {r \in schedules : r.village_id = resp.village /\ r.gate_id = resp.gate} = {s}
        /\ s.days_of_week = {d}
        /\ d # Weekday(now) ) =>
        LET ahead == (d + DaysPerWeek - Weekday(now)) % DaysPerWeek IN
        /\ ahead \in 1 .. (DaysPerWeek - 1)
        /\ resp.status = 200
        /\ resp.has_next_change
        /\ resp.next_change_type = "schedule_start"
        /\ resp.sid = s.id
        /\ resp.days_until = ahead
        /\ resp.change_time = (now \div TicksPerDay + ahead) * TicksPerDay + s.start_time
        /\ NextChangeResults(Admin, resp.gate) = {resp}

\* C16 witness: the schedule's weekday lies before today's in the week, and
\* the answer is its start six days ahead
C16_FoundSixDaysAhead ==
  /\ resp.op = "next_change"
  /\ resp.next_change_type = "schedule_start"
  /\ resp.days_until = DaysPerWeek - 1
  /\ \E s \in schedules : \E d \in s.days_of_week : d < Weekday(now)

\* C17: a stored schedule with start_time >= end_time is inapplicable: it is
\* never the schedule the effective-mode endpoint answers, it is never the
\* schedule whose start or end the next-change endpoint reports, and neither
\* request fails because of it.
C17_InvalidRecordInapplicable ==
  ( /\ resp.op \in {"effective_mode", "next_change"}
    /\ \E s \in schedules : s.start_time >= s.end_time ) =>
    /\ resp.status = 200
    /\ (resp.op = "effective_mode" /\ resp.source = "schedule") =>
         \A s \in schedules : s.id = resp.sid => s.start_time < s.end_time
    /\ (resp.op = "next_change"
          /\ resp.next_change_type \in {"schedule_start", "schedule_end"}) =>
         \A s \in schedules : s.id = resp.sid => s.start_time < s.end_time

C19_ClearedOverrideStaysCleared ==
  [][ /\ (resp'.op = "effective_mode"
            /\ lastOverride'[resp'.village][resp'.gate] = NoOverride) =>
          resp'.source # "override"
      /\ (resp = NoResp /\ resp'.op = "clear_override" /\ resp'.status # 403
            /\ GateOverrides(overrides, resp'.village, resp'.gate) = {}) =>
          /\ resp'.status = 204
          /\ overrides' = overrides
          /\ schedules' = schedules
          /\ lastOverride' = lastOverride ]_vars

\* C20: the read requests (mode, effective-mode, next-change and gate-status)
\* leave the stored schedules and the stored overrides as they were; an
\* expired override row is neither deleted nor altered by being read.
ReadRequests == {"mode", "effective_mode", "next_change", "gate_status"}

C20_ReadsLeaveStoreUnchanged ==
  [][ (resp = NoResp /\ resp'.op \in ReadRequests) =>
        /\ schedules' = schedules
        /\ overrides' = overrides ]_vars

\* C20 witness: the effective-mode endpoint has answered for a gate whose
\* override row had expired, and the row is still stored
C20_ExpiredRowSurvivesRead ==
  /\ resp.op = "effective_mode" /\ resp.status = 200
  /\ \E o \in GateOverrides(overrides, resp.village, resp.gate) : o.expiry_time <= now

\* every stored schedule is valid and no two of a gate overlap
ValidSchedules ==
  /\ \A s \in schedules : s.start_time < s.end_time
  /\ NoOverlap(schedules)

\* C21: with no unexpired override and valid, non-overlapping schedules, a
\* next-change answer with has_next_change = true has a change_time strictly
\* after now, at most 7 days after now, that is the earliest instant after
\* now at which a schedule of the gate starts or ends on one of its weekdays.
C21_EarliestBoundaryReported ==
  ( /\ resp.op = "next_change" /\ resp.has_next_change
    /\ LiveOverrides(resp.village, resp.gate, now) = {}
    /\ ValidSchedules ) =>
    /\ resp.change_time > now
    /\ resp.change_time <= now + DaysPerWeek * TicksPerDay
    /\ resp.change_time \in Boundaries(resp.village, resp.gate, now)
    /\ \A b \in Boundaries(resp.village, resp.gate, now) : resp.change_time <= b

\* C21 witness: the answer is a start seven days ahead: the gate's schedule
\* is of today's weekday and has ended today
C21_FoundAWeekAhead ==
  /\ resp.op = "next_change" /\ resp.has_next_change
  /\ resp.days_until = DaysPerWeek
  /\ LiveOverrides(resp.village, resp.gate, now) = {}
  /\ Cardinality(schedules) = 2

\* C22: with an unexpired override the next-change endpoint reports the
\* earlier of the override's expiry_time and the earliest schedule boundary
\* after now: override_expiry when the expiry precedes every such boundary,
\* the schedule boundary (schedule_start or schedule_end) when that boundary
\* strictly precedes the expiry.
C22_EarlierOfExpiryAndBoundary ==
  resp.op = "next_change" =>
    \A o \in LiveOverrides(resp.village, resp.gate, now) :
      /\ (\A b \in Boundaries(resp.village, resp.gate, now) : o.expiry_time < b) =>
           /\ resp.next_change_type = "override_expiry"
           /\ resp.change_time = o.expiry_time
      /\ (\E b \in Boundaries(resp.village, resp.gate, now) : b < o.expiry_time) =>
           /\ resp.next_change_type \in {"schedule_start", "schedule_end"}
           /\ resp.change_time \in Boundaries(resp.village, resp.gate, now)
           /\ \A b \in Boundaries(resp.village, resp.gate, now) : resp.change_time <= b

\* C23: for valid, non-overlapping schedules and no unexpired override, the
\* next_mode of a schedule_start or schedule_end answer for instant t is the
\* mode the effective-mode lookup gives at t: the starting schedule's mode
\* for a start; for an end the mode of a schedule that starts at t on that
\* weekday, else staff_assisted.
C23_NextModeIsModeAtChange ==
  ( /\ resp.op = "next_change"
    /\ resp.next_change_type \in {"schedule_start", "schedule_end"}
    /\ LiveOverrides(resp.village, resp.gate, now) = {}
    /\ ValidSchedules ) =>
    LET t == resp.change_time
        act == EffectiveActiveSchedules(schedules, resp.village, resp.gate, t)
        starting == {s \in act : s.start_time = TimeOfDay(t)}
    IN
    /\ act # {} => \A s \in act : resp.next_mode = s.operation_mode
    /\ act = {} => resp.next_mode = EffectiveDefaultMode
    /\ resp.next_change_type = "schedule_start" =>
         \E s \in starting : s.id = resp.sid /\ resp.next_mode = s.operation_mode
    /\ resp.next_change_type = "schedule_end" =>
         IF starting # {} THEN \E s \in starting : resp.next_mode = s.operation_mode
         ELSE resp.next_mode = "staff_assisted"

\* C23 witness: a schedule ends where another one, automated, starts, and
\* the answer for the end names the automated mode
C23_EndContinuesAutomated ==
  /\ resp.op = "next_change"
  /\ resp.next_change_type = "schedule_end"
  /\ resp.next_mode = "automated"
  /\ LiveOverrides(resp.village, resp.gate, now) = {}

\* C29: if a gate has a schedule whose days_of_week is a non-empty subset of
\* 0..6, the next-change endpoint answers has_next_change = true at every
\* now, with or without an override, also when the gate's only schedule is
\* of today's weekday and has ended today.
C29_ScheduledGateHasNextChange ==
  ( /\ resp.op = "next_change"
    /\ \E s \in schedules :
         /\ s.village_id = resp.village /\ s.gate_id = resp.gate
         /\ s.days_of_week # {}
         /\ s.days_of_week \subseteq 0 .. (DaysPerWeek - 1) ) =>
    /\ resp.status = 200
    /\ resp.has_next_change

\* C29 witness: the gate's only schedule is of today's weekday and has ended,
\* and the answer is its start a week ahead
C29_OnlyScheduleEndedToday ==
  /\ resp.op = "next_change" /\ resp.has_next_change
  /\ resp.next_change_type = "schedule_start"
  /\ resp.days_until = DaysPerWeek
  /\ \E s \in schedules :
       /\ schedules = {s}
       /\ s.days_of_week = {Weekday(now)}
       /\ s.end_time <= TimeOfDay(now)

\* C24: create and update accept abutting schedules: a window that starts
\* where a stored schedule of the same gate and an intersecting day ends (or
\* ends where it starts) is not taken as overlapping; a valid create or
\* update whose window only touches or lies apart from every stored window
\* of the gate is accepted, and an accepted create is stored.
WindowsApart(start_time, end_time, s) ==
  start_time >= s.end_time \/ end_time <= s.start_time

C24_AbuttingAccepted ==
  [][ /\ \A data \in ScheduleInputs :
           ( /\ data.village_id = Admin.village_id
             /\ data.start_time < data.end_time
             /\ \A s \in schedules :
                  (s.village_id = data.village_id /\ s.gate_id = data.gate_id) =>
                    WindowsApart(data.start_time, data.end_time, s) ) =>
             CreateRefusal(Admin, data) = 0
      /\ \A row \in schedules, upd \in UpdateInputs :
           ( /\ NewStart(upd, row) < NewEnd(upd, row)
             /\ \A s \in schedules :
                  ( /\ s.id # row.id /\ s.village_id = row.village_id
                    /\ s.gate_id = NewGateId(upd, row) ) =>
                    WindowsApart(NewStart(upd, row), NewEnd(upd, row), s) ) =>
             /\ ~UpdateTimesInvalid(upd, row)
             /\ UpdateOverlapping(schedules, row.village_id, row.id, upd, row) = {}
      /\ (resp = NoResp /\ resp'.op = "create_schedule" /\ resp'.status = 201) =>
           \E s \in schedules' \ schedules : s.id = resp'.sid ]_vars

\* C24 witness: the schedule just created starts where another schedule of
\* the same gate and day ends, and both are stored
C24_AbuttingPairStored ==
  /\ resp.op = "create_schedule" /\ resp.status = 201
  /\ \E a \in schedules, b \in schedules :
       /\ b.id = resp.sid /\ a.id # b.id
       /\ a.gate_id = b.gate_id
       /\ a.days_of_week \cap b.days_of_week # {}
       /\ b.start_time = a.end_time

\* C25: under any interleaving of two concurrent create requests for a gate,
\* once both have completed no two stored schedules of the gate overlap.
C25_ConcurrentCreatesKeepApart ==
  (\A p \in Sessions : txn[p] = Idle) =>
    \A a \in schedules, b \in schedules :
      (a.id # b.id /\ a.village_id = b.village_id /\ a.gate_id = b.gate_id) =>
        ~SchedulesOverlap(a, b)

\* C26: a control request of a resident is granted (and writes a granted
\* access-log row) only when the gate's mode at that instant is automated;
\* when it is staff_assisted (by override, schedule or default) the request
\* is refused and writes nothing; admin and staff are granted in either mode.
C26_ResidentOnlyWhenAutomated ==
  [][ (resp = NoResp /\ resp'.op = "control_gate" /\ resp'.status # 400) =>
        \E u \in Users :
          /\ u.id = resp'.by
          /\ IF u.role = "resident" /\ ~AutomatedApplies(resp'.village, resp'.gate, now)
               THEN /\ resp'.status = 403
                    /\ access_logs' = access_logs
               ELSE /\ resp'.status = 200
                    /\ Len(access_logs') = Len(access_logs) + 1
                    /\ access_logs'[Len(access_logs')].user_id = u.id
                    /\ access_logs'[Len(access_logs')].status = "granted" ]_vars

\* C26 witness: a resident was granted in automated mode, and the log has
\* the row
C26_ResidentGranted ==
  /\ resp.op = "control_gate" /\ resp.status = 200
  /\ resp.mode = "automated"
  /\ \E u \in Users : u.id = resp.by /\ u.role = "resident"
  /\ Len(access_logs) > 0

\* C27: the three copies of the lookup agree: for the same village, gate,
\* now, non-overlapping schedules and override, control_gate, gate status
\* and the effective-mode endpoint come to the same mode and source in every
\* reachable store, also when the gate has an override and no schedule.
C27_ThreeCopiesAgree ==
  ValidSchedules =>
    \A u \in Users, g \in Gates :
      /\ {<<r.mode, r.source>> : r \in EffectiveModeResults(u, g)}
           = {<<m.mode, m.source>> : m \in ControlModes(u, g)}
      /\ {<<r.mode, r.source>> : r \in GateStatusResults(u, g)}
           = {<<m.mode, m.source>> : m \in ControlModes(u, g)}

\* C28: overrides and schedules are isolated per (village, gate): a request
\* that creates, replaces or clears an override, or creates, updates or
\* deletes a schedule, of one (village, gate) leaves the effective mode and
\* the next change of every other gate, and of the same gate id in every
\* other village, as they were.
WriteRequests ==
  {"create_schedule", "update_schedule", "delete_schedule", "override", "clear_override"}

\* what the two read endpoints answer for gate g to user u
GateView(u, g) == <<EffectiveModeResults(u, g), NextChangeResults(u, g)>>

QRRecord == CHOOSE r \in qr_code_records : TRUE

C30_AtMostOneEntry ==
  [][ qr_code_records # {} =>
        /\ QRRecord'.used_entries <= 1
        /\ Cardinality({i \in 1 .. Len(qr_code_usage_logs') :
               /\ qr_code_usage_logs'[i].action = "entry"
               /\ qr_code_usage_logs'[i].success}) <= 1
        /\ \/ QRRecord'.status = QRRecord.status
           \/ <<QRRecord.status, QRRecord'.status>> \in
                {<<"unused", "active">>, <<"active", "completed">>}
        /\ (resp = NoResp /\ resp'.op = "entry" /\ resp'.success) =>
             (QRRecord.status = "unused" /\ QRRecord'.status = "active")
        /\ (resp = NoResp /\ resp'.op \in QRCodeAction /\ ~resp'.success) =>
             /\ QRRecord'.used_entries = QRRecord.used_entries
             /\ QRRecord'.entry_time = QRRecord.entry_time
             /\ QRRecord'.exit_time = QRRecord.exit_time
             /\ QRRecord'.status = QRRecord.status ]_vars

====
